---- MODULE Spec2Model ----
(***************************************************************************)
(* Model of tripadvisor-scraper/main.py: scrape_search, the crawl          *)
(* orchestrator (first page, pagination plan, concurrent page crawl,       *)
(* sequential detail enrichment), with parse_search_page and               *)
(* scrape_restaurant_details.                                              *)
(*                                                                         *)
(* Python values are tagged where the code can produce values of more than *)
(* one type: PyStr(s) is a str, PyInt(n) an int, None the None object.     *)
(* A text is a sequence of one-character strings.  A URL is the record     *)
(* [host, path, oa, d]: oa is the digit string that follows the "oa"       *)
(* offset marker of the URL, <<>> when the URL holds no such marker; d     *)
(* names the restaurant of a detail page, <<>> on a listing page.          *)
(***************************************************************************)
EXTENDS Integers, Sequences, FiniteSets, TLC

\* ---------------------------------------------------------------- bounds
\* listings on one listing page: 0..MaxListings
MaxListings == 2
\* largest results count written in a count label
MaxTotal == 5
\* longest list of secondary page URLs the model follows
MaxPlan == 2

\* ------------------------------------------------------- program constants
\* the status the asserts of lines 51 and 66 require
HTTP_OK == 200

\* ------------------------------------------------------------ Python values
None == [t |-> "NoneType"]
PyStr(s) == [t |-> "str", v |-> s]
PyInt(n) == [t |-> "int", v |-> n]

\* truth value of an Optional[int]: None and 0 are false
Truthy(x) == x # None /\ x.v # 0

DigitChars == <<"0", "1", "2", "3", "4", "5", "6", "7", "8", "9">>

IsDigit(c) == \E d \in 1..10 : DigitChars[d] = c

DigitValue(c) == (CHOOSE d \in 1..10 : DigitChars[d] = c) - 1

\* str(n) for n >= 0, as in the f-strings f"oa{page_size}"
RECURSIVE Digits(_)
Digits(n) == IF n < 10 THEN <<DigitChars[n + 1]>>
             ELSE Digits(n \div 10) \o <<DigitChars[(n % 10) + 1]>>

\* text.split()[0]: the first whitespace-separated token; <<>> stands for
\* "split() returned an empty list", where [0] raises IndexError
RECURSIVE TakeToken(_)
TakeToken(text) == IF text = <<>> \/ Head(text) = " " THEN <<>>
                   ELSE <<Head(text)>> \o TakeToken(Tail(text))

RECURSIVE FirstToken(_)
FirstToken(text) == IF text = <<>> THEN <<>>
                    ELSE IF Head(text) = " " THEN FirstToken(Tail(text))
                    ELSE TakeToken(text)

\* token.replace(",", "")
RECURSIVE DropCommas(_)
DropCommas(tok) == IF tok = <<>> THEN <<>>
                   ELSE IF Head(tok) = "," THEN DropCommas(Tail(tok))
                   ELSE <<Head(tok)>> \o DropCommas(Tail(tok))

\* int(s) accepts s (over the characters modelled here) iff it is a
\* non-empty run of digits; otherwise it raises ValueError
IntAccepts(s) == s # <<>> /\ \A j \in 1..Len(s) : IsDigit(s[j])

RECURSIVE IntValue(_)
IntValue(s) == IF s = <<>> THEN 0
               ELSE 10 * IntValue(SubSeq(s, 1, Len(s) - 1)) + DigitValue(s[Len(s)])

\* math.ceil(a / b) for a >= 0, b > 0
Ceil(a, b) == (a + b - 1) \div b

IsPrefix(p, s) == Len(p) <= Len(s) /\ SubSeq(s, 1, Len(p)) = p

RECURSIVE Flatten(_)
Flatten(ss) == IF ss = <<>> THEN <<>> ELSE Head(ss) \o Flatten(Tail(ss))

\* ------------------------------------------------------------------- URLs
Host == <<"h">>

\* the url argument of scrape_search (main, line 111): no offset marker
SearchUrl == [host |-> Host, path |-> <<"S">>, oa |-> <<>>, d |-> <<>>]

\* urljoin(base, href): a relative href (host None) takes the base's host
UrlJoin(base, href) == IF href.host = None THEN [href EXCEPT !.host = base.host]
                       ELSE href

\* variant of ReplaceOffset: the offset of the page after the one meant
ReplaceOffsetOnePageOn(u, page_size, i) ==
  IF u.oa # <<>> /\ IsPrefix(Digits(page_size), u.oa)
  THEN [u EXCEPT !.oa = Digits(page_size * (i + 1))
                          \o SubSeq(u.oa, Len(Digits(page_size)) + 1, Len(u.oa))]
  ELSE u

\* s.replace(f"oa{page_size}", f"oa{page_size * i}") on a URL whose only
\* "oa" is the offset marker: the marker matches when str(page_size) is a
\* prefix of the digits after it, and only those digits are replaced
ReplaceOffset(u, page_size, i) ==
  IF u.oa # <<>> /\ IsPrefix(Digits(page_size), u.oa)
  THEN [u EXCEPT !.oa = Digits(page_size * i)
                          \o SubSeq(u.oa, Len(Digits(page_size)) + 1, Len(u.oa))]
  ELSE u

\* ------------------------------------------------------- the site's pages
\* the k-th div.listing of the listing page served at url u
Listing(u, k) ==
  [title |-> <<"R">> \o Digits(k),
   href  |-> [host |-> None, path |-> <<"D">>, oa |-> <<>>,
              d |-> u.path \o u.oa \o <<"-">> \o Digits(k)]]

\* texts a span.results_count can hold; None: the page has no such span
CountLabels ==
  {None, PyStr(<<>>), PyStr(<<" ">>), PyStr(<<"x">>), PyStr(<<"x", " ", "3">>),
   PyStr(<<"1", ",", "2", " ", "x">>)}
  \cup {PyStr(Digits(n) \o <<" ", "x">>) : n \in 0..MaxTotal}

\* hrefs an a[aria-label="Next page"] can hold on a page of n listings;
\* None: the page has no such link
NextLinks(n) ==
  {None,
   [host |-> None, path |-> <<"S">>, oa |-> Digits(n), d |-> <<>>],
   [host |-> None, path |-> <<"S">>, oa |-> Digits(n) \o <<"0">>, d |-> <<>>],
   [host |-> None, path |-> <<"S", "2">>, oa |-> <<>>, d |-> <<>>]}

\* the statuses a fetch resolves with: success, and one error status
Statuses == {HTTP_OK, 503}

HTTP_UNAVAILABLE == CHOOSE s \in Statuses : s # HTTP_OK

\* what `await client.get(url)` can give for a listing page: a transport
\* exception, or a response with a status and a body
TransportError == [exc |-> TRUE]

FirstResponses ==
  {TransportError}
  \cup UNION {{[exc |-> FALSE, url |-> SearchUrl, status |-> s, n |-> n,
                 label |-> l, next |-> x] :
                  s \in Statuses, l \in CountLabels, x \in NextLinks(n)} :
              n \in 0..MaxListings}

\* a page served with an error status holds no listing, or one
PageResponses(u) ==
  {TransportError}
  \cup {[exc |-> FALSE, url |-> u, status |-> HTTP_OK, n |-> n] :
          n \in 0..MaxListings}
  \cup {[exc |-> FALSE, url |-> u, status |-> HTTP_UNAVAILABLE, n |-> n] :
          n \in 0..1}

\* detail pages: bubble is the digit run after "bubble_" in the class of
\* span.ui_bubble_rating, <<>> when the class (or the span) gives no match
FullBody == [reviews |-> <<"1", "2">>, bubble |-> <<"4", "5">>, address |-> <<"a">>]

UnratedBody == [reviews |-> <<"7">>, bubble |-> <<>>, address |-> <<"a">>]

BareBody == [reviews |-> <<>>, bubble |-> <<>>, address |-> <<>>]

\* the site's detail page of a restaurant: the first listing of every page
\* has a full page, the second a bare one, the third an unrated one, ...
DetailBody(u) ==
  LET k == DigitValue(u.d[Len(u.d)]) % 3
  IN  IF k = 1 THEN FullBody ELSE IF k = 2 THEN BareBody ELSE UnratedBody

DetailResponses(u) ==
  {TransportError,
   [exc |-> FALSE, status |-> HTTP_OK, body |-> DetailBody(u)],
   [exc |-> FALSE, status |-> HTTP_UNAVAILABLE, body |-> BareBody]}

\* ------------------------------------------------------ parse_search_page
parse_search_page(response) ==
  [k \in 1..response.n |->
     [url             |-> UrlJoin(response.url, Listing(response.url, k).href),
      name            |-> Listing(response.url, k).title,
      numberOfReviews |-> PyStr(<<>>),
      rating          |-> PyStr(<<>>),
      address         |-> PyStr(<<>>)]]

\* ---------------------------------------------- scrape_restaurant_details
\* the assert of line 51
DetailBlocked(response) == response.status # HTTP_OK

\* .re_first(r'bubble_(\d+)'): the match, or None (no default is given)
re_first(bubble) == IF bubble = <<>> THEN None ELSE PyStr(bubble)

\* the returned tuple (number_of_reviews, rating, address)
parse_details(response) ==
  [number_of_reviews |-> PyStr(response.body.reviews),
   rating            |-> re_first(response.body.bubble),
   address           |-> PyStr(response.body.address)]
\* ------------------------------------------------------------------ state
VARIABLES
  pc,              \* where scrape_search stands
  err,             \* the exception that left scrape_search, "" if none
  returned,        \* the returned list, None while nothing is returned
  max_pages,       \* the max_pages argument
  first_page,      \* first_page: the first response, None before it resolves
  results,         \* the list `results`
  page_size, total_results, next_page_url,
  computed_pages,  \* history: total_pages as line 80 computes it
  total_pages,     \* total_pages after the max_pages cap of lines 83-85
  other_page_urls, \* the list of secondary page URLs
  inflight,        \* indices of other_page_urls whose fetch is unresolved
  responses,       \* index -> response of a resolved secondary fetch
  doneq,           \* as_completed's queue: resolved, not yet awaited
  it,              \* index in results of the record being enriched
  completed,       \* history: indices in the order their fetch resolved
  detail_log,      \* history: the URLs detail fetches were issued for
  run,             \* 1 in a first call of scrape_search, 2 in a second one
  site,            \* in a second call: the pages the first call was served
  prev             \* in a second call: the list the first call returned

vars == <<pc, err, returned, max_pages, first_page, results, page_size,
          total_results, next_page_url, computed_pages, total_pages,
          other_page_urls,
          inflight, responses, doneq, it, completed, detail_log,
          run, site, prev>>

locals == <<page_size, total_results, next_page_url, computed_pages,
            total_pages, other_page_urls>>

crawl == <<inflight, responses, doneq, completed>>

twin == <<run, site, prev>>

\* the max_pages arguments tried: one more than the plan bound lets through
MaxPagesArgs == {None} \cup {PyInt(n) : n \in 0..(MaxPlan + 1)}

Init ==
  /\ pc = "start"
  /\ err = ""
  /\ returned = None
  /\ max_pages \in MaxPagesArgs
  /\ first_page = None
  /\ results = <<>>
  /\ page_size = 0
  /\ total_results = 0
  /\ next_page_url = None
  /\ computed_pages = 0
  /\ total_pages = 0
  /\ other_page_urls = <<>>
  /\ inflight = {}
  /\ responses = <<>>
  /\ doneq = <<>>
  /\ it = 0
  /\ completed = <<>>
  /\ detail_log = <<>>
  /\ run = 1
  /\ site = None
  /\ prev = None

\* raise: the exception leaves scrape_search
Raise(e) == pc' = "error" /\ err' = e

\* variant of IssueDetail: the fetches of record j and of every record
\* after it are issued together
IssueDetailAllAtOnce(rs, j) ==
  /\ it' = j
  /\ detail_log' = detail_log \o [m \in 1..(Len(rs) - j + 1) |-> rs[j + m - 1].url]
  /\ pc' = "detail_wait"

\* lines 101-102 and 49-50: the loop of line 101 takes record j of list
\* rs and scrape_restaurant_details issues its fetch and suspends
IssueDetail(rs, j) ==
  /\ it' = j
  /\ detail_log' = Append(detail_log, rs[j].url)
  /\ pc' = "detail_wait"

\* ---------------------------------------------------------- scrape_search
\* line 76: .get(default="") of the count label
total_results_text(response) ==
  IF response.label = None THEN <<>> ELSE response.label.v

\* line 77: [raises |-> the exception raised or "", value |-> the int]
ParseTotalResults(text) ==
  IF text = <<>> THEN [raises |-> "", value |-> 0]
  ELSE IF FirstToken(text) = <<>> THEN [raises |-> "IndexError", value |-> 0]
  ELSE IF ~IntAccepts(DropCommas(FirstToken(text)))
  THEN [raises |-> "ValueError", value |-> 0]
  ELSE [raises |-> "", value |-> IntValue(DropCommas(FirstToken(text)))]

\* variant of NextPageUrl: urljoin applied without the test of line 79
\* (urljoin(url, None) gives url)
NextPageUrlAlwaysJoined(url, href) ==
  IF href # None THEN UrlJoin(url, href) ELSE url

\* lines 78-79
NextPageUrl(url, href) == IF href # None THEN UrlJoin(url, href) ELSE None

\* variant of TotalPages: floor division in place of math.ceil
TotalPagesFloor(n_results, size) ==
  IF n_results # 0 THEN n_results \div size ELSE 1

\* line 80
TotalPages(n_results, size) ==
  IF n_results # 0 THEN Ceil(n_results, size) ELSE 1

\* variant of CapPages: the cap applied one page too late
CapPagesOffByOne(pages, cap) ==
  IF Truthy(cap) /\ pages > cap.v THEN cap.v + 1 ELSE pages

\* lines 83-85
CapPages(pages, cap) ==
  IF Truthy(cap) /\ pages > cap.v THEN cap.v ELSE pages

\* lines 90-93
OtherPageUrls(next, size, pages) ==
  IF next # None
  THEN [i \in 1..(pages - 1) |-> ReplaceOffset(next, size, i)]
  ELSE <<>>

\* the length of the list lines 75-93 make from a first response
PlanLength(response, cap) ==
  LET parsed == ParseTotalResults(total_results_text(response))
  IN  IF response.exc THEN 0
      ELSE IF response.n = 0 \/ parsed.raises # "" THEN 0
      ELSE Len(OtherPageUrls(NextPageUrl(SearchUrl, response.next), response.n,
                             CapPages(TotalPages(parsed.value, response.n), cap)))

\* line 65: first_page = await client.get(url) is issued
FetchFirstPage ==
  /\ pc = "start"
  /\ pc' = "fetch_first"
  /\ UNCHANGED <<err, returned, max_pages, first_page, results, locals, crawl,
                 it, detail_log, twin>>

\* variant of FirstPageBlocked: the assert of line 66 left out
FirstPageBlockedNoAssert(response) == FALSE

\* the assert of line 66
FirstPageBlocked(response) == response.status # HTTP_OK

\* lines 65-66: the first-page fetch resolves (with a page whose plan is
\* within the bound of the model)
FirstPageResolve ==
  /\ pc = "fetch_first"
  /\ \E response \in FirstResponses :
       /\ PlanLength(response, max_pages) <= MaxPlan
       /\ IF response.exc
          THEN Raise("first_transport") /\ UNCHANGED first_page
          ELSE IF FirstPageBlocked(response)
          THEN Raise("first_status") /\ first_page' = response
          ELSE /\ first_page' = response
               /\ pc' = "parse_first"
               /\ UNCHANGED err
  /\ UNCHANGED <<returned, max_pages, results, locals, crawl, it, detail_log,
                 twin>>

\* variant of NoResults: the early return of lines 70-72 left out
NoResultsNoCheck(parsed) == FALSE

\* line 70: `not results`
NoResults(parsed) == parsed = <<>>

\* lines 69-72
ParseFirstPage ==
  /\ pc = "parse_first"
  /\ results' = parse_search_page(first_page)
  /\ IF NoResults(results')
     THEN pc' = "done" /\ returned' = <<>>
     ELSE pc' = "plan" /\ UNCHANGED returned
  /\ UNCHANGED <<err, max_pages, first_page, locals, crawl, it, detail_log,
                 twin>>
\* variant of Scheduled: only the first fetch is started
ScheduledFirstOnly(urls) == IF urls = <<>> THEN {} ELSE {1}

\* lines 96-97: as_completed makes a task of every coroutine of to_scrape,
\* so every fetch is started, whatever the length of the list
Scheduled(urls) == 1..Len(urls)

\* lines 75-97: pagination metadata, the plan, and the start of every
\* secondary fetch (as_completed schedules all of to_scrape at once); with
\* an empty plan the loop of line 97 is skipped and enrichment starts
PlanPagination ==
  /\ pc = "plan"
  /\ LET size   == Len(results)
         parsed == ParseTotalResults(total_results_text(first_page))
         next   == NextPageUrl(SearchUrl, first_page.next)
         pages  == TotalPages(parsed.value, size)
         capped == CapPages(pages, max_pages)
         urls   == OtherPageUrls(next, size, capped)
     IN  IF parsed.raises # ""
         THEN /\ Raise(parsed.raises)
              /\ page_size' = size
              /\ UNCHANGED <<total_results, next_page_url, computed_pages,
                             total_pages, other_page_urls, crawl, it,
                             detail_log>>
         ELSE IF parsed.value # 0 /\ size = 0
         THEN /\ Raise("ZeroDivisionError")
              /\ page_size' = size
              /\ total_results' = parsed.value
              /\ next_page_url' = next
              /\ UNCHANGED <<computed_pages, total_pages, other_page_urls,
                             crawl, it, detail_log>>
         ELSE /\ page_size' = size
              /\ total_results' = parsed.value
              /\ next_page_url' = next
              /\ computed_pages' = pages
              /\ total_pages' = capped
              /\ other_page_urls' = urls
              /\ inflight' = Scheduled(urls)
              /\ responses' = [i \in 1..Len(urls) |-> None]
              /\ IF urls = <<>>
                 THEN IssueDetail(results, 1)
                 ELSE pc' = "crawl" /\ UNCHANGED <<it, detail_log>>
              /\ UNCHANGED <<err, doneq, completed>>
  /\ UNCHANGED <<returned, max_pages, first_page, results, twin>>

\* a secondary fetch resolves and joins as_completed's queue
ResolvePage ==
  /\ pc = "crawl"
  /\ \E i \in inflight :
       \E response \in PageResponses(other_page_urls[i]) :
         /\ inflight' = inflight \ {i}
         /\ responses' = [responses EXCEPT ![i] = response]
         /\ doneq' = Append(doneq, i)
         /\ completed' = Append(completed, i)
  /\ UNCHANGED <<pc, err, returned, max_pages, first_page, results, locals,
                 it, detail_log, twin>>

RECURSIVE SeqMin(_)
SeqMin(q) == IF Len(q) = 1 THEN q[1]
             ELSE IF q[1] < SeqMin(Tail(q)) THEN q[1] ELSE SeqMin(Tail(q))

\* variant of NextDone: results taken in request order (as with gather)
NextDoneInRequestOrder(q) == SeqMin(q)

\* as_completed yields the fetches in the order they resolved
NextDone(q) == Head(q)

\* variant of CrawlOver: the loop waits for one fetch more than was issued
CrawlOverOneMore(n_awaited, urls) == n_awaited = Len(urls) + 1

\* variant of CrawlOver: the loop stops after the first resolved fetch
CrawlOverAfterFirst(n_awaited, urls) == n_awaited >= 1

\* the for loop of line 97 ends after len(to_scrape) awaits
CrawlOver(n_awaited, urls) == n_awaited = Len(urls)

\* variant of Extend: a page's previews are appended twice
ExtendTwice(rs, parsed) == rs \o parsed \o parsed

\* line 98: results.extend(parsed), one step of the orchestrating task
Extend(rs, parsed) == rs \o parsed

\* lines 97-98: `await response` gives the next resolved fetch; its
\* result is parsed and appended, or its exception is raised; after the
\* last one enrichment starts
AwaitPage ==
  /\ pc = "crawl"
  /\ doneq # <<>>
  /\ LET i        == NextDone(doneq)
         response == responses[i]
         rest     == SelectSeq(doneq, LAMBDA j : j # i)
     IN  /\ doneq' = rest
         /\ IF response.exc
            THEN Raise("page_transport") /\ UNCHANGED <<results, it, detail_log>>
            ELSE /\ results' = Extend(results, parse_search_page(response))
                 /\ IF CrawlOver(Len(completed) - Len(rest), other_page_urls)
                    THEN IssueDetail(results', 1)
                    ELSE UNCHANGED <<pc, it, detail_log>>
                 /\ UNCHANGED err
  /\ UNCHANGED <<returned, max_pages, first_page, locals, inflight, responses,
                 completed, twin>>

\* variant of Enriched: the address is stored under the key "name"
EnrichedOverName(result, details) ==
  [result EXCEPT !.numberOfReviews = details.number_of_reviews,
                 !.rating = details.rating,
                 !.name = details.address.v]

\* lines 103-105
Enriched(result, details) ==
  [result EXCEPT !.numberOfReviews = details.number_of_reviews,
                 !.rating = details.rating,
                 !.address = details.address]

\* lines 50-60 and 102-107: the detail fetch resolves; the record is
\* filled in; the next record's fetch is issued, or after the last record
\* the list is returned
DetailResolve ==
  /\ pc = "detail_wait"
  /\ \E response \in DetailResponses(results[it].url) :
       IF response.exc
       THEN Raise("detail_transport")
            /\ UNCHANGED <<results, returned, it, detail_log>>
       ELSE IF DetailBlocked(response)
       THEN Raise("detail_status")
            /\ UNCHANGED <<results, returned, it, detail_log>>
       ELSE /\ results' = [results EXCEPT
                             ![it] = Enriched(results[it], parse_details(response))]
            /\ IF it = Len(results)
               THEN /\ pc' = "done"
                    /\ returned' = results'
                    /\ UNCHANGED <<it, detail_log>>
               ELSE /\ IssueDetail(results', it + 1)
                    /\ UNCHANGED returned
            /\ UNCHANGED err
  /\ UNCHANGED <<max_pages, first_page, locals, crawl, twin>>

Next ==
  \/ FetchFirstPage
  \/ FirstPageResolve
  \/ ParseFirstPage
  \/ PlanPagination
  \/ ResolvePage
  \/ AwaitPage
  \/ DetailResolve

\* one call of scrape_search
Spec == Init /\ [][Next]_vars

\* every issued fetch resolves in the end, and the event loop runs the
\* orchestrating task whenever it can go on
LiveSpec == Spec /\ WF_vars(Next)

\* the secondary pages served are unchanged data: one URL, one response
SiteUnchanged ==
  \A i, j \in 1..Len(other_page_urls) :
    other_page_urls[i] = other_page_urls[j] => responses[i] = responses[j]

\* main, line 112, run again: a call that returned is followed by a second
\* call with the same arguments
CallAgain ==
  /\ run = 1
  /\ pc = "done"
  /\ SiteUnchanged
  /\ run' = 2
  /\ site' = [first |-> first_page, pages |-> responses]
  /\ prev' = returned
  /\ pc' = "start"
  /\ returned' = None
  /\ first_page' = None
  /\ results' = <<>>
  /\ page_size' = 0
  /\ total_results' = 0
  /\ next_page_url' = None
  /\ computed_pages' = 0
  /\ total_pages' = 0
  /\ other_page_urls' = <<>>
  /\ inflight' = {}
  /\ responses' = <<>>
  /\ doneq' = <<>>
  /\ it' = 0
  /\ completed' = <<>>
  /\ detail_log' = <<>>
  /\ UNCHANGED <<err, max_pages>>

\* the second call is served the pages the first call was served: the same
\* first page, the same page for every URL, detail pages with status 200
SameData ==
  /\ run = 2
  /\ pc # "error"
  /\ first_page \in {None, site.first}
  /\ \A i \in DOMAIN responses :
       \/ responses[i] = None
       \/ i \notin DOMAIN site.pages
       \/ site.pages[i] = None
       \/ responses[i] = site.pages[i]

\* a step of a first call, or a step of a second call on the same data
Served == run = 1 \/ SameData'

TwinNext ==
  \/ FetchFirstPage /\ Served
  \/ FirstPageResolve /\ Served
  \/ ParseFirstPage /\ Served
  \/ PlanPagination /\ Served
  \/ ResolvePage /\ Served
  \/ AwaitPage /\ Served
  \/ DetailResolve /\ Served
  \/ CallAgain

\* the page cap main passes, line 112
MAIN_MAX_PAGES == 3

\* the max_pages of the two calls: the default of the signature, line 62,
\* and the argument of main
TwinArgs == {None, PyInt(MAIN_MAX_PAGES)}

TwinInit == Init /\ max_pages \in TwinArgs

\* two calls of scrape_search, one after the other, on unchanged data
TwinSpec == TwinInit /\ [][TwinNext]_vars
\* ================================================================ claims
\* the url and name of every record of a list, in order
Core(rs) == [j \in 1..Len(rs) |-> [url |-> rs[j].url, name |-> rs[j].name]]

\* the secondary fetches issued so far
PagesIssued == Cardinality(inflight) + Len(completed)

\* scrape_search has computed its plan (lines 75-93 ran without raising)
Planned == \/ pc \in {"crawl", "detail_wait"}
           \/ pc = "done" /\ results # <<>>
           \/ pc = "error" /\ err \in {"page_transport", "detail_transport",
                                       "detail_status"}

Min(a, b) == IF a < b THEN a ELSE b

\* C1: when the first-page fetch resolves with a status other than 200,
\* scrape_search ends in an error: nothing is returned, and no secondary
\* page fetch and no detail fetch is ever issued.
C1_FirstPageFailureFatal ==
  (first_page # None /\ first_page.status # HTTP_OK)
    => /\ pc = "error"
       /\ returned = None
       /\ PagesIssued = 0
       /\ other_page_urls = <<>>
       /\ detail_log = <<>>

C1_Witness ==
  /\ first_page # None
  /\ first_page.status = HTTP_UNAVAILABLE
  /\ first_page.n > 0
  /\ first_page.next # None
  /\ pc = "error"
  /\ err = "first_status"

\* a secondary fetch that succeeded: it resolved with status 200
PageSucceeded(i) == ~responses[i].exc /\ responses[i].status = HTTP_OK

\* the previews of the pages among indices `order` that succeeded
RECURSIVE SucceededBlocks(_)
SucceededBlocks(order) ==
  IF order = <<>> THEN <<>>
  ELSE (IF PageSucceeded(Head(order))
        THEN Core(parse_search_page(responses[Head(order)]))
        ELSE <<>>) \o SucceededBlocks(Tail(order))

\* C2: whichever secondary page fetches fail (error status or transport
\* error), no exception leaves scrape_search because of them, and once the
\* crawl is over the list holds exactly the first page's previews plus the
\* previews of the secondary pages that succeeded.
C2_PageFailuresDropped ==
  /\ err # "page_transport"
  /\ pc \in {"detail_wait", "done"}
       => Core(results) = Core(parse_search_page(first_page))
                            \o SucceededBlocks(completed)

\* C3: a detail fetch that resolves with a status other than 200 does not
\* abort enrichment: no exception leaves scrape_search because of it.
C3_DetailFailureTolerated == err # "detail_status"

\* ceil(t / p) by its definition: the least n with n * p >= t
CeilOf(t, p) == CHOOSE n \in 0..t : n * p >= t /\ \A m \in 0..(n - 1) : m * p < t

\* C4: with page size P > 0 and parsed count T, line 80 computes
\* ceil(T / P) pages when T > 0 and 1 page when T is 0 or the label is
\* missing; when it computes 1, no secondary page is planned or fetched.
C4_TotalPagesIsCeil ==
  Planned
    => /\ page_size > 0
       /\ total_results > 0 => computed_pages = CeilOf(total_results, page_size)
       /\ total_results = 0 => computed_pages = 1
       /\ first_page.label = None => computed_pages = 1
       /\ computed_pages = 1 => other_page_urls = <<>> /\ PagesIssued = 0

C4_Witness ==
  /\ Planned
  /\ total_results = 3
  /\ page_size = 2
  /\ computed_pages = 2
  /\ Len(other_page_urls) = 1

\* C5: with max_pages >= 1 and a next-page link, the plan holds exactly
\* min(totalPages, max_pages) - 1 URLs, so the listing pages fetched,
\* first page included, number min(totalPages, max_pages) <= max_pages.
C5_PlanBoundedByCap ==
  (Planned /\ max_pages # None /\ max_pages.v >= 1 /\ next_page_url # None)
    => /\ Len(other_page_urls) = Min(computed_pages, max_pages.v) - 1
       /\ 1 + PagesIssued = Min(computed_pages, max_pages.v)
       /\ 1 + PagesIssued <= max_pages.v

C5_Witness ==
  /\ Planned
  /\ max_pages = PyInt(2)
  /\ computed_pages = 5
  /\ next_page_url # None
  /\ Len(other_page_urls) = 1
  /\ pc = "done"

\* a count label that is present but whose text gives no number as its
\* first token: no token at all, or a token that is not digits and commas
MalformedLabel(l) ==
  /\ l # None
  /\ \/ FirstToken(l.v) = <<>>
     \/ \E j \in 1..Len(FirstToken(l.v)) :
          ~IsDigit(FirstToken(l.v)[j]) /\ FirstToken(l.v)[j] # ","

\* C6: a present but malformed count label does not make scrape_search
\* raise: the count is 0 and the run is a single-page crawl.
C6_MalformedCountIsZero ==
  (first_page # None /\ first_page.status = HTTP_OK /\ first_page.n > 0
     /\ MalformedLabel(first_page.label) /\ pc \notin {"parse_first", "plan"})
    => /\ err \notin {"IndexError", "ValueError"}
       /\ total_results = 0
       /\ other_page_urls = <<>>

\* the phase of the orchestrator a position belongs to
PhaseRank(p) ==
  CASE p = "start" -> 0
    [] p = "fetch_first" -> 1
    [] p = "parse_first" -> 2
    [] p = "plan" -> 3
    [] p = "crawl" -> 4
    [] p = "detail_wait" -> 5
    [] p \in {"done", "error"} -> 6

\* any fetch other than the first has been issued
LaterFetchIssued == PagesIssued > 0 \/ detail_log # <<>>

\* the previews merged into results by the loop of lines 97-98
MergedLen ==
  Len(parse_search_page(first_page))
    + Len(Flatten([j \in 1..Len(completed) |->
                     IF responses[completed[j]].exc THEN <<>>
                     ELSE parse_search_page(responses[completed[j]])]))

C7_PhaseInvariant ==
  /\ LaterFetchIssued
       => first_page # None /\ first_page.status = HTTP_OK /\ PhaseRank(pc) >= 4
  /\ detail_log # <<>>
       => /\ inflight = {}
          /\ doneq = <<>>
          /\ Len(completed) = Len(other_page_urls)
          /\ Len(results) = MergedLen

\* C7: the phases follow one another in the fixed order and never go
\* back; the first-page fetch has resolved before any other fetch is
\* issued, and every planned secondary fetch has resolved and been merged
\* before the first detail fetch is issued.
C7_PhaseOrder ==
  /\ []C7_PhaseInvariant
  /\ [][PhaseRank(pc') >= PhaseRank(pc)]_vars

C7_Witness ==
  /\ pc = "done"
  /\ Len(completed) = 2
  /\ Len(detail_log) >= 3

IsStr(x) == x # None /\ x.t = "str"

\* C8: every returned record has the five fields, and numberOfReviews,
\* rating and address are strings (the empty string when unavailable).
C8_FieldsAreStrings ==
  pc = "done"
    => \A j \in 1..Len(returned) :
         /\ DOMAIN returned[j]
              = {"url", "name", "numberOfReviews", "rating", "address"}
         /\ IsStr(returned[j].numberOfReviews)
         /\ IsStr(returned[j].rating)
         /\ IsStr(returned[j].address)

\* the previews of the pages of indices `order`, block after block
Blocks(order) ==
  Flatten([j \in 1..Len(order) |->
             IF responses[order[j]].exc THEN <<>>
             ELSE Core(parse_search_page(responses[order[j]]))])

\* C9: the list starts with the first page's previews in page order,
\* followed by one block per secondary page in the order the fetches
\* resolved, each block in its page's order; so does the returned list.
C9_CompletionOrder ==
  /\ pc \in {"crawl", "detail_wait", "done"}
       => Core(results)
            = Core(parse_search_page(first_page))
                \o Blocks(SubSeq(completed, 1, Len(completed) - Len(doneq)))
  /\ pc = "done" /\ first_page.n > 0
       => Core(returned) = Core(parse_search_page(first_page)) \o Blocks(completed)

C9_Witness ==
  /\ pc = "done"
  /\ completed = <<2, 1>>
  /\ responses[1].n = 2
  /\ responses[2].n = 1
  /\ Len(returned) = first_page.n + 3

\* C10: a first page fetched with status 200 that parses to zero previews
\* makes scrape_search return an empty list without raising, and no
\* secondary page fetch and no detail fetch is issued.
C10_EmptyFirstPage ==
  (first_page # None /\ first_page.status = HTTP_OK /\ first_page.n = 0
     /\ pc # "parse_first")
    => /\ pc = "done"
       /\ err = ""
       /\ returned = <<>>
       /\ PagesIssued = 0
       /\ detail_log = <<>>

C10_Witness ==
  /\ first_page # None
  /\ first_page.status = HTTP_OK
  /\ first_page.n = 0
  /\ first_page.next # None
  /\ first_page.label = PyStr(<<"5", " ", "x">>)
  /\ pc = "done"
  /\ returned = <<>>
C13_NoNextLinkNoPlan ==
  (Planned /\ first_page.next = None)
    => /\ other_page_urls = <<>>
       /\ PagesIssued = 0
       /\ pc # "crawl"
       /\ detail_log # <<>>
       /\ detail_log[1] = parse_search_page(first_page)[1].url

C13_Witness ==
  /\ Planned
  /\ first_page.next = None
  /\ computed_pages >= 3
  /\ max_pages = None
  /\ pc = "done"
Range(q) == {q[j] : j \in 1..Len(q)}

\* C14: every planned URL is fetched exactly once: from the moment the
\* plan is made each index of other_page_urls is either in flight or
\* resolved, never both, and no index resolves twice (no retry); all the
\* fetches are in flight together before any resolves.
C14_OneFetchPerUrl ==
  Planned
    => /\ inflight \cup Range(completed) = 1..Len(other_page_urls)
       /\ inflight \cap Range(completed) = {}
       /\ Cardinality(Range(completed)) = Len(completed)
       /\ completed = <<>> => inflight = 1..Len(other_page_urls)

C14_Witness ==
  /\ pc = "crawl"
  /\ Len(other_page_urls) = 2
  /\ inflight = {1, 2}
  /\ completed = <<>>
\* the secondary fetches whose result the loop of lines 97-98 has taken
Awaited == Range(completed) \ Range(doneq)

\* the orders in which the members of S can be listed, each once
Perms(S) == {q \in [1..Cardinality(S) -> S] : Range(q) = S}

\* C15: results is written by the orchestrating task alone, one whole page
\* at a time: at every moment it is the first page's previews followed by
\* the block of every awaited fetch, each block whole, once, and next to
\* no part of another block; the returned list is of that form too.
C15_WholeBlocksOnce ==
  /\ pc \in {"crawl", "detail_wait", "done"}
       => \E order \in Perms(Awaited) :
            Core(results) = Core(parse_search_page(first_page)) \o Blocks(order)
  /\ pc = "done"
       => /\ Len(returned) = Len(results)
          /\ results # <<>> => Awaited = 1..Len(other_page_urls)

C15_Witness ==
  /\ pc = "done"
  /\ Len(other_page_urls) = 2
  /\ \A i \in 1..2 : responses[i].status = HTTP_OK /\ responses[i].n = 2
  /\ Len(returned) = first_page.n + 4
\* what a detail page served with status 200 puts in a record
Detailed(r) ==
  Enriched(r, parse_details([exc |-> FALSE, status |-> HTTP_OK,
                             body |-> DetailBody(r.url)]))

\* the fields as parse_search_page leaves them
Unenriched(r) ==
  /\ r.numberOfReviews = PyStr(<<>>)
  /\ r.rating = PyStr(<<>>)
  /\ r.address = PyStr(<<>>)

\* C16: detail fetches are issued one per record, in list order, one at a
\* time: the j-th fetch issued is for record j, the fetch of record `it`
\* is the only one that can be outstanding, every record before it has its
\* fields written and every record after it has not been touched; a
\* returned list has had one fetch per record.
C16_SequentialEnrichment ==
  /\ Len(detail_log) = it
  /\ it <= Len(results)
  /\ \A j \in 1..Len(detail_log) : detail_log[j] = results[j].url
  /\ \A j \in 1..Len(results) :
       /\ j < it => results[j] = Detailed(results[j])
       /\ j > it => Unenriched(results[j])
       /\ (j = it /\ pc = "detail_wait") => Unenriched(results[j])
  /\ pc = "done" => Len(detail_log) = Len(returned)

C16_Witness ==
  /\ pc = "detail_wait"
  /\ it = 2
  /\ Len(results) >= 3
  /\ results[1].rating = PyStr(<<"4", "5">>)
\* C17: the planned page URLs are pairwise distinct, whatever next-page
\* URL the first page carries, so no listing page is fetched twice and no
\* preview is in the list twice.
C17_PlanUrlsDistinct ==
  Planned
    => /\ \A i, j \in 1..Len(other_page_urls) :
            i # j => other_page_urls[i] # other_page_urls[j]
       /\ \A i, j \in 1..Len(results) :
            i # j => results[i].url # results[j].url
\* C18: a step of the enrichment phase leaves the number of records, their
\* order and every url and name as they are, and changes no record but the
\* one being enriched; what is returned is that list.
C18_EnrichmentFrame ==
  [][pc = "detail_wait"
       => /\ Len(results') = Len(results)
          /\ Core(results') = Core(results)
          /\ \A j \in 1..Len(results) : j # it => results'[j] = results[j]
          /\ pc' = "done" => returned' = results']_vars

C18_Witness ==
  /\ pc = "done"
  /\ Len(returned) >= 3
  /\ Len(other_page_urls) >= 1
  /\ returned[1].address = PyStr(<<"a">>)
  /\ returned[1].name = <<"R", "1">>
Terminal == pc \in {"done", "error"}

\* C19: when every issued fetch resolves in the end, scrape_search reaches
\* a final outcome, a returned list or an error; and at no time has it
\* issued more page fetches than planned URLs or more detail fetches than
\* records.
C19_Terminates ==
  /\ <>Terminal
  /\ [](PagesIssued <= Len(other_page_urls) /\ Len(detail_log) <= Len(results))

C19_Witness ==
  /\ pc = "done"
  /\ Len(other_page_urls) = 2
  /\ Len(completed) = 2
  /\ Len(detail_log) >= 4
  /\ Len(detail_log) = Len(returned)
\* how many times x is in the list q
Count(q, x) == Cardinality({j \in 1..Len(q) : q[j] = x})

\* C11: two calls on unchanged data, whatever the order in which their
\* secondary fetches resolve, return the same records with the same field
\* values, as many times each; the records of the first page are at the
\* same places in both lists, and with at most one secondary page the two
\* lists are equal.
C11_SameResultTwice ==
  (run = 2 /\ pc = "done")
    => /\ Len(returned) = Len(prev)
       /\ \A j \in 1..Len(prev) : Count(returned, prev[j]) = Count(prev, prev[j])
       /\ SubSeq(returned, 1, page_size) = SubSeq(prev, 1, page_size)
       /\ Len(other_page_urls) <= 1 => returned = prev

C11_Witness ==
  /\ run = 2
  /\ pc = "done"
  /\ Len(other_page_urls) = 2
  /\ returned # prev
  /\ Len(returned) = page_size + 3
====
